---- MODULE Spec2Model ----
(***************************************************************************)
(* PipelinePluginI18n: the locale context (a ContextVar read and written   *)
(* per logical flow) and the translation registrar, which installs a       *)
(* locale-resolving callable into a handler class's ERROR_TEMPLATES.       *)
(***************************************************************************)
EXTENDS Integers, Sequences, FiniteSets, TLC

\* ------------------------------------------------------------------ bounds

\* Logical flows (contexts) that can exist in one run.
MaxFlows == 3

\* Handler instances a failure can be reported for.
NumInstances == 2

\* ------------------------------------------------------------- value sets

BASE_LOCALE == "en"

\* Locale = Literal["en", "pl"]: the keys a Translation may hold.
Locale == {"en", "pl"}

\* set_locale checks nothing, so a flow's locale may be any string; "fr" stands
\* for the values outside the Locale type.
LocaleValues == Locale \cup {"fr"}

\* A ContextVar that holds no value in a context.
Unset == "unset"

Flows == 1..MaxFlows

Instances == 1..NumInstances

\* Two handler classes, two failure modes (HandlerMode members), two
\* caller-owned Translation dictionaries, two error templates.
Handlers == {"H1", "H2"}

Modes == {"M1", "M2"}

DictIds == {"d1", "d2"}

Templates == {"Ta", "Tb"}

\* A key a dictionary does not hold.
Absent == "absent"

\* {}
EmptyDict == [k \in {} |-> "Ta"]

\* ------------------------------------------------------------------ state

VARIABLES
    alive,            \* the flows that exist
    parent,           \* parent[f]: the flow f was forked from, 0 for a root
    ctx,              \* ctx[f]: CURRENT_LOCALE's value in f's context, or Unset
    lastSet,          \* history: the locale f itself last passed to set_locale
    atFork,           \* history: the locale f's parent observed when f was forked
    heap,             \* heap[d]: the contents of the caller's dictionary d
    ERROR_TEMPLATES,  \* ERROR_TEMPLATES[h][m]: handler h's slot for mode m
    last              \* the most recent call and its outcome

vars == <<alive, parent, ctx, lastSet, atFork, heap, ERROR_TEMPLATES, last>>

ctxVars == <<alive, parent, ctx, lastSet, atFork>>

regVars == <<heap, ERROR_TEMPLATES>>

\* ------------------------------------------------------- the Locale Context

\* A get without the default.
GetNoDefault(v) == v

\* CURRENT_LOCALE.get(BASE_LOCALE) in the context whose value is v.
GetOrDefault(v) == IF v = Unset THEN BASE_LOCALE ELSE v

\* get_locale() called in flow f, the contexts being c.
LocaleIn(c, f) == GetOrDefault(c[f])

\* get_locale() called in flow f.
get_locale(f) == LocaleIn(ctx, f)

\* A set that writes one variable all flows share.
ContextSetShared(c, f, l) == [g \in DOMAIN c |-> l]

\* cls.CURRENT_LOCALE.set(locale) called in flow f: the contexts after it.
ContextSet(c, f, l) == [c EXCEPT ![f] = l]

\* A fork that starts from an empty context.
ContextCopyNothing(c, p) == Unset

\* The context a flow forked from p starts with: a copy of p's.
ContextCopy(c, p) == c[p]

\* The context a flow that inherits nothing starts with.
ContextEmpty == Unset

NewFlow == Cardinality(alive) + 1

\* What the calls made so far let flow f observe: its own last set_locale,
\* else what its parent observed when f was forked.
Observed(f) == IF lastSet[f] # Unset THEN lastSet[f] ELSE atFork[f]

RECURSIVE Ancestors(_)
Ancestors(f) == IF parent[f] = 0 THEN {} ELSE {parent[f]} \cup Ancestors(parent[f])

GetLocale(f) ==
    /\ f \in alive
    /\ last' = [op |-> "get_locale", flow |-> f, value |-> get_locale(f)]
    /\ UNCHANGED <<ctxVars, regVars>>

SetLocale(f, l) ==
    /\ f \in alive
    /\ ctx' = ContextSet(ctx, f, l)
    /\ lastSet' = [lastSet EXCEPT ![f] = l]
    /\ last' = [op |-> "set_locale", flow |-> f, value |-> l]
    /\ UNCHANGED <<alive, parent, atFork, regVars>>

\* A flow started from p with a copy of p's context (a task created in p,
\* copy_context().run in p).
Fork(p) ==
    /\ p \in alive
    /\ NewFlow <= MaxFlows
    /\ alive' = alive \cup {NewFlow}
    /\ parent' = [parent EXCEPT ![NewFlow] = p]
    /\ ctx' = [ctx EXCEPT ![NewFlow] = ContextCopy(ctx, p)]
    /\ atFork' = [atFork EXCEPT ![NewFlow] = Observed(p)]
    /\ last' = [op |-> "fork", flow |-> NewFlow]
    /\ UNCHANGED <<lastSet, regVars>>

\* A flow started with an empty context (it inherits from no flow).
Spawn ==
    /\ NewFlow <= MaxFlows
    /\ alive' = alive \cup {NewFlow}
    /\ ctx' = [ctx EXCEPT ![NewFlow] = ContextEmpty]
    /\ last' = [op |-> "spawn", flow |-> NewFlow]
    /\ UNCHANGED <<parent, lastSet, atFork, regVars>>

\* ------------------------------------------------- the caller's dictionaries

\* The Translations tables a caller can pass: a dict iterates in insertion
\* order, so a table is a sequence of (mode, Translation) items with distinct
\* modes, each Translation one of the caller's dictionaries.
Items == [mode : Modes, dict : DictIds]

Tables ==
    {<<>>}
    \cup {<<i>> : i \in Items}
    \cup {<<p[1], p[2]>> : p \in {q \in Items \X Items : q[1].mode # q[2].mode}}

\* The entry a dictionary holds under key k.
Entry(translation, k) == IF k \in DOMAIN translation THEN translation[k] ELSE Absent

\* The dictionary with the entry under key k set to e, or removed.
WithEntry(translation, k, e) ==
    IF e = Absent
    THEN [x \in DOMAIN translation \ {k} |-> translation[x]]
    ELSE [x \in DOMAIN translation \cup {k} |-> IF x = k THEN e ELSE translation[x]]

\* translation[l] = t, as the caller does it.
DictSet(d, l, t) ==
    /\ heap' = [heap EXCEPT ![d] = WithEntry(@, l, t)]
    /\ last' = [op |-> "dict_set", dict |-> d, key |-> l, old |-> Entry(heap[d], l)]
    /\ UNCHANGED <<ctxVars, ERROR_TEMPLATES>>

\* del translation[l], as the caller does it.
DictDel(d, l) ==
    /\ l \in DOMAIN heap[d]
    /\ heap' = [heap EXCEPT ![d] = WithEntry(@, l, Absent)]
    /\ last' = [op |-> "dict_del", dict |-> d, key |-> l, old |-> Entry(heap[d], l)]
    /\ UNCHANGED <<ctxVars, ERROR_TEMPLATES>>

\* The dictionaries as they were before the most recent call.
PrevHeap ==
    IF last.op \in {"dict_set", "dict_del"}
    THEN [heap EXCEPT ![last.dict] = WithEntry(@, last.key, last.old)]
    ELSE heap

\* --------------------------------------------------------- register_handler

\* The slot a handler class has before any registration: its own template.
DefaultSlot == [kind |-> "default"]

\* A check for an empty translation instead of a missing base locale.
MissingAny(translation) == DOMAIN translation = {}

\* cls.BASE_LOCALE not in translation
MissingBase(translation) == BASE_LOCALE \notin DOMAIN translation

\* partial(process_translation, translation=translation): the callable holds
\* the dictionary object d itself.
Bind(d) == [kind |-> "resolver", translation |-> d]

\* An install that rebuilds the slot table around the one mode.
InstallAlone(slots, mode, d) ==
    [m \in DOMAIN slots |-> IF m = mode THEN Bind(d) ELSE DefaultSlot]

\* handler.ERROR_TEMPLATES[mode] = partial(...)
Install(slots, mode, d) == [slots EXCEPT ![mode] = Bind(d)]

\* The for loop of register_handler from item i on: the handler's slots when
\* the loop ends, and whether and for which mode it raised.
RECURSIVE RegisterLoop(_, _, _)
RegisterLoop(slots, tab, i) ==
    IF i > Len(tab)
    THEN [slots |-> slots, raised |-> FALSE, mode |-> "-"]
    ELSE IF MissingBase(heap[tab[i].dict])
         THEN [slots |-> slots, raised |-> TRUE, mode |-> tab[i].mode]
         ELSE RegisterLoop(Install(slots, tab[i].mode, tab[i].dict), tab, i + 1)

\* register_handler(handler, translations); on a raise the message names
\* handler.__name__, BASE_LOCALE and mode.value.
RegisterHandler(h, tab) ==
    LET r == RegisterLoop(ERROR_TEMPLATES[h], tab, 1) IN
    /\ ERROR_TEMPLATES' = [ERROR_TEMPLATES EXCEPT ![h] = r.slots]
    /\ last' = [op |-> "register_handler", handler |-> h, raised |-> r.raised,
                errHandler |-> IF r.raised THEN h ELSE "-",
                errLocale |-> IF r.raised THEN BASE_LOCALE ELSE "-",
                errMode |-> r.mode]
    /\ UNCHANGED <<ctxVars, heap>>

\* ------------------------------------------------------ process_translation

\* error_template(self): what a template returns for a handler instance.
Render(t, self) == [kind |-> "rendered", template |-> t, arg |-> self]

\* translation.get(locale, translation[cls.BASE_LOCALE]): the default argument
\* is evaluated first, so a dictionary without the base locale raises KeyError
\* whatever the locale is.
Lookup(translation, locale) ==
    IF BASE_LOCALE \notin DOMAIN translation THEN [kind |-> "KeyError"]
    ELSE IF locale \in DOMAIN translation
         THEN [kind |-> "template", template |-> translation[locale]]
         ELSE [kind |-> "template", template |-> translation[BASE_LOCALE]]

\* process_translation(self, translation) called in flow f.
process_translation(f, self, translation) ==
    LET found == Lookup(translation, get_locale(f)) IN
    IF found.kind = "KeyError" THEN found ELSE Render(found.template, self)

\* A callable that reads a copy taken before the caller's latest change.
CapturedCopy(slot) == PrevHeap[slot.translation]

\* The dictionary a bound callable reads when it is called: the object it
\* holds, as it is now.
Captured(slot) == heap[slot.translation]

\* ERROR_TEMPLATES[mode](self), called in flow f.
CallSlot(f, self, slot) ==
    IF slot.kind = "default"
    THEN [kind |-> "default", arg |-> self]
    ELSE process_translation(f, self, Captured(slot))

\* Handler h fails in mode m in flow f. outBefore is history: what the same
\* call returns on the dictionaries as they were before the preceding call.
Invoke(f, h, m, self) ==
    /\ f \in alive
    /\ last' = [op |-> "invoke", flow |-> f, handler |-> h, mode |-> m, self |-> self,
                out |-> CallSlot(f, self, ERROR_TEMPLATES[h][m]),
                outBefore |->
                    IF ERROR_TEMPLATES[h][m].kind = "default"
                    THEN [kind |-> "default", arg |-> self]
                    ELSE process_translation(
                             f, self, PrevHeap[ERROR_TEMPLATES[h][m].translation])]
    /\ UNCHANGED <<ctxVars, regVars>>

\* ---------------------------------------------------------- specifications

\* One flow, no dictionary filled, no handler registered.
Init ==
    /\ alive = {1}
    /\ parent = [f \in Flows |-> 0]
    /\ ctx = [f \in Flows |-> Unset]
    /\ lastSet = [f \in Flows |-> Unset]
    /\ atFork = [f \in Flows |-> Unset]
    /\ heap = [d \in DictIds |-> EmptyDict]
    /\ ERROR_TEMPLATES = [h \in Handlers |-> [m \in Modes |-> DefaultSlot]]
    /\ last = [op |-> "none"]

\* Init after one Spawn: two flows that inherit nothing from each other.
InitServe ==
    /\ alive = {1, 2}
    /\ parent = [f \in Flows |-> 0]
    /\ ctx = [f \in Flows |-> Unset]
    /\ lastSet = [f \in Flows |-> Unset]
    /\ atFork = [f \in Flows |-> Unset]
    /\ heap = [d \in DictIds |-> EmptyDict]
    /\ ERROR_TEMPLATES = [h \in Handlers |-> [m \in Modes |-> DefaultSlot]]
    /\ last = [op |-> "none"]

\* The Locale Context: flows start, set and read their locale.
NextLocale ==
    \/ \E f \in Flows : GetLocale(f)
    \/ \E f \in Flows, l \in LocaleValues : SetLocale(f, l)
    \/ \E p \in Flows : Fork(p)
    \/ Spawn

SpecLocale == Init /\ [][NextLocale]_vars

\* Setup: the caller fills dictionaries and registers both handler classes.
\* register_handler reads only the keys of a dictionary, so one template is
\* stored.
NextRegister ==
    \/ \E d \in DictIds, l \in Locale : DictSet(d, l, "Ta")
    \/ \E d \in DictIds, l \in Locale : DictDel(d, l)
    \/ \E h \in Handlers, tab \in Tables : RegisterHandler(h, tab)
    \/ \E f \in Flows, l \in LocaleValues : SetLocale(f, l)

SpecRegister == Init /\ [][NextRegister]_vars

\* Failure handling: handler class H1 is registered and fails in two flows
\* while the caller keeps changing its dictionaries.
Next ==
    \/ \E d \in DictIds, l \in Locale, t \in Templates : DictSet(d, l, t)
    \/ \E d \in DictIds, l \in Locale : DictDel(d, l)
    \/ \E tab \in Tables : RegisterHandler("H1", tab)
    \/ \E f \in Flows, l \in LocaleValues : SetLocale(f, l)
    \/ \E f \in Flows, m \in Modes, self \in Instances : Invoke(f, "H1", m, self)

Spec == InitServe /\ [][Next]_vars

\* ------------------------------------------------------------------ claims

\* The slot the most recent invoke called.
LastSlot == ERROR_TEMPLATES[last.handler][last.mode]

\* Some mode's translation in the table lacks the base-locale entry.
LacksBase(tab) == \E i \in 1..Len(tab) : BASE_LOCALE \notin DOMAIN heap[tab[i].dict]

\* Neither flow descends from the other.
Unrelated(a, b) == a # b /\ a \notin Ancestors(b) /\ b \notin Ancestors(a)

\* C1: all-or-nothing registration. Whenever some mode's translation lacks the
\* base locale, register_handler raises and the handler's slot table after the
\* call equals the table before it, for every mode.
C1_AllOrNothing ==
    [][\A h \in Handlers, tab \in Tables :
          (last'.op = "register_handler" /\ RegisterHandler(h, tab) /\ LacksBase(tab))
              => (last'.raised /\ ERROR_TEMPLATES'[h] = ERROR_TEMPLATES[h])]_vars

\* C2 as stated: if a flow A unrelated to B has set a locale other than the
\* base locale and B never called set_locale, get_locale() in B returns the
\* base locale.
C2_IsolationAsStated ==
    last.op = "get_locale" =>
        \A a \in alive :
            (/\ Unrelated(a, last.flow)
             /\ lastSet[a] \notin {Unset, BASE_LOCALE}
             /\ lastSet[last.flow] = Unset)
                => last.value = BASE_LOCALE

\* C2 as amended: get_locale() in flow B returns the base locale, a value B
\* set itself or the value B inherited when it was forked, never a value only
\* an unrelated flow set; and when B neither called set_locale nor inherited a
\* locale, it returns the base locale whatever an unrelated flow A has set.
C2_Isolation ==
    last.op = "get_locale" =>
        /\ last.value \in
               {BASE_LOCALE} \cup ({lastSet[last.flow], atFork[last.flow]} \ {Unset})
        /\ \A a \in alive :
               (/\ Unrelated(a, last.flow)
                /\ lastSet[a] \notin {Unset, BASE_LOCALE}
                /\ lastSet[last.flow] = Unset
                /\ atFork[last.flow] = Unset)
                   => last.value = BASE_LOCALE

\* C2's case: B reads the base locale while an unrelated flow A holds "pl".
C2_Witness ==
    /\ last.op = "get_locale"
    /\ last.value = BASE_LOCALE
    /\ lastSet[last.flow] = Unset
    /\ atFork[last.flow] = Unset
    /\ \E a \in alive : Unrelated(a, last.flow) /\ lastSet[a] = "pl" /\ ctx[a] = "pl"

\* C3: fallback. When the current locale is not a key of the translation a
\* resolver is bound to, the resolver returns what the base-locale template
\* returns for the same handler instance.
C3_Fallback ==
    (/\ last.op = "invoke"
     /\ LastSlot.kind = "resolver"
     /\ get_locale(last.flow) \notin DOMAIN heap[LastSlot.translation])
        => /\ BASE_LOCALE \in DOMAIN heap[LastSlot.translation]
           /\ last.out = Render(heap[LastSlot.translation][BASE_LOCALE], last.self)

\* C4: resolver correctness. When the locale of the invoking flow is a key of
\* the translation a resolver is bound to, the resolver returns the result of
\* the template stored under that locale, called with the handler instance.
C4_ResolverCorrect ==
    (/\ last.op = "invoke"
     /\ LastSlot.kind = "resolver"
     /\ get_locale(last.flow) \in DOMAIN heap[LastSlot.translation])
        => last.out = Render(heap[LastSlot.translation][get_locale(last.flow)], last.self)

\* C5: default. get_locale() in a flow that neither called set_locale nor
\* inherited a locale returns the base locale; get_locale() always returns a
\* locale and leaves every flow's context as it was.
C5_Default ==
    [][\A f \in Flows :
          GetLocale(f) =>
              /\ ctx' = ctx
              /\ last'.value \in LocaleValues
              /\ (lastSet[f] = Unset /\ atFork[f] = Unset) => last'.value = BASE_LOCALE]_vars

\* C5's case: a forked flow that inherited nothing reads the base locale
\* although its parent has set a locale since.
C5_Witness ==
    /\ last.op = "get_locale"
    /\ last.value = BASE_LOCALE
    /\ parent[last.flow] # 0
    /\ lastSet[last.flow] = Unset
    /\ atFork[last.flow] = Unset
    /\ lastSet[parent[last.flow]] = "pl"

\* C6: scope of set_locale. get_locale() in a flow that called set_locale(l)
\* returns its latest l; a flow forked from it afterwards starts with l; and
\* set_locale changes what no other flow observes.
C6_Scope ==
    [][/\ \A f \in Flows :
              (GetLocale(f) /\ lastSet[f] # Unset) => last'.value = lastSet[f]
       /\ \A p \in Flows, n \in Flows :
              (Fork(p) /\ n = NewFlow /\ lastSet[p] # Unset)
                  => LocaleIn(ctx', n) = lastSet[p]
       /\ \A f \in Flows, l \in LocaleValues :
              SetLocale(f, l) =>
                  /\ LocaleIn(ctx', f) = l
                  /\ \A g \in Flows \ {f} : LocaleIn(ctx', g) = LocaleIn(ctx, g)]_vars

\* C6's case: flow 1 forked flow 2, called set_locale("pl"), then forked flow 3:
\* flow 3 reads "pl", flow 2 still reads the base locale.
C6_Witness ==
    /\ last.op = "get_locale"
    /\ last.flow = 3
    /\ last.value = "pl"
    /\ parent[2] = 1 /\ parent[3] = 1
    /\ lastSet[1] = "pl" /\ lastSet[2] = Unset /\ lastSet[3] = Unset
    /\ get_locale(2) = BASE_LOCALE

\* C7: register_handler raises exactly when some mode's translation lacks the
\* base locale; the error names the handler class passed in and a mode whose
\* translation lacks it; and when it does not raise, every mode of the table
\* has a resolver bound to that mode's own translation.
C7_RaisesIff ==
    [][\A h \in Handlers, tab \in Tables :
          (last'.op = "register_handler" /\ RegisterHandler(h, tab)) =>
              /\ last'.raised <=> LacksBase(tab)
              /\ last'.raised =>
                     /\ last'.errHandler = h
                     /\ \E i \in 1..Len(tab) :
                            /\ tab[i].mode = last'.errMode
                            /\ BASE_LOCALE \notin DOMAIN heap[tab[i].dict]
              /\ ~last'.raised =>
                     \A i \in 1..Len(tab) :
                         /\ ERROR_TEMPLATES'[h][tab[i].mode].kind = "resolver"
                         /\ ERROR_TEMPLATES'[h][tab[i].mode].translation = tab[i].dict]_vars

\* C7's case: a registration raised for mode M2 of H1 while a dictionary with
\* entries but no base locale exists, and H2 holds resolvers bound to two
\* different dictionaries.
C7_Witness ==
    /\ last.op = "register_handler"
    /\ last.raised
    /\ last.errHandler = "H1"
    /\ last.errMode = "M2"
    /\ \E d \in DictIds : DOMAIN heap[d] = {"pl"}
    /\ ERROR_TEMPLATES["H2"]["M1"].kind = "resolver"
    /\ ERROR_TEMPLATES["H2"]["M2"].kind = "resolver"
    /\ ERROR_TEMPLATES["H2"]["M1"] # ERROR_TEMPLATES["H2"]["M2"]

\* C8: no runtime failure of locale resolution. An installed resolver never
\* fails in its lookup: it selects the current locale's template or the
\* base-locale template, whatever the caller did to its dictionaries.
C8_LookupNeverFails ==
    (last.op = "invoke" /\ LastSlot.kind = "resolver")
        => /\ last.out.kind = "rendered"
           /\ last.out.template \in
                  {Entry(heap[LastSlot.translation], get_locale(last.flow)),
                   Entry(heap[LastSlot.translation], BASE_LOCALE)}

\* C9: frame of register_handler. A call, raising or not, leaves every flow's
\* locale, every other handler class's slots and the dictionaries as they
\* were, and a call that does not raise leaves the slots of the modes that are
\* not keys of the table as they were.
C9_Frame ==
    [][\A h \in Handlers, tab \in Tables :
          (last'.op = "register_handler" /\ RegisterHandler(h, tab)) =>
              /\ ctx' = ctx
              /\ heap' = heap
              /\ \A g \in Handlers \ {h} : ERROR_TEMPLATES'[g] = ERROR_TEMPLATES[g]
              /\ ~last'.raised =>
                     \A m \in Modes \ {tab[i].mode : i \in 1..Len(tab)} :
                         ERROR_TEMPLATES'[h][m] = ERROR_TEMPLATES[h][m]]_vars

\* C9's case: H1 was registered for M2 only, after M1 had been: M1's resolver
\* is still the one bound to d1, H2 keeps its resolver and flow 1 its locale.
C9_Witness ==
    /\ last.op = "register_handler"
    /\ last.handler = "H1"
    /\ ~last.raised
    /\ ERROR_TEMPLATES["H1"]["M1"] = [kind |-> "resolver", translation |-> "d1"]
    /\ ERROR_TEMPLATES["H1"]["M2"] = [kind |-> "resolver", translation |-> "d2"]
    /\ MissingBase(heap["d1"])
    /\ ERROR_TEMPLATES["H2"]["M1"].kind = "resolver"
    /\ ERROR_TEMPLATES["H2"]["M2"].kind = "default"
    /\ ctx[1] = "pl"

\* C10: capture by reference. A resolver selects its template from the
\* dictionary it was registered with as the dictionary is when the resolver is
\* called, entries added, replaced or removed since registration included.
C10_ByReference ==
    (last.op = "invoke" /\ LastSlot.kind = "resolver")
        => last.out =
               process_translation(last.flow, last.self, heap[LastSlot.translation])

\* C10's case: the caller changed the dictionary right before the call, and
\* the call rendered another template than it would have before the change.
C10_Witness ==
    /\ last.op = "invoke"
    /\ LastSlot.kind = "resolver"
    /\ last.out.kind = "rendered"
    /\ last.outBefore.kind = "rendered"
    /\ last.out.template # last.outBefore.template

====
